---------------------------- MODULE Spec2Model ----------------------------
(***************************************************************************)
(* State machine of the MPTCP option engine of packetdrill                 *)
(* (gtests/net/packetdrill/mptcp.c): the session state mp_state, the       *)
(* variable store, the subflow list and the per-packet rewriting of        *)
(* MP_CAPABLE, MP_JOIN and DSS options.                                    *)
(*                                                                         *)
(* Integers wider than TLC's are kept at their real width as tuples of     *)
(* bytes, most significant byte first: a u64 is an 8-tuple, a u32 a        *)
(* 4-tuple. The host is little-endian, so the bytes a field puts on the    *)
(* wire are the reverse of that tuple.                                     *)
(***************************************************************************)
EXTENDS Integers, Sequences, FiniteSets, TLC

(***************************************************************************)
(* Bounds of the model.                                                    *)
(***************************************************************************)
MaxQueue == 5
MaxSubflows == 2
MaxDssBytes == 1000
MaxAddrId == 2
MaxTrace == 3

(***************************************************************************)
(* Program constants.                                                      *)
(***************************************************************************)
STATUS_OK == 0
STATUS_ERR == -1
TCPOLEN_MP_CAPABLE_SYN == 12
TCPOLEN_MP_CAPABLE == 20
TCPOLEN_MP_JOIN_SYN == 12
TCPOLEN_MP_JOIN_SYN_ACK == 16
TCPOLEN_MP_JOIN_ACK == 24
TCPOLEN_DSS_DSN8 == 20
TCPOLEN_DSS_DSN8_WOCS == 18
TCPOLEN_DSS_DACK8 == 12
MP_CAPABLE_SUBTYPE == 0
MP_JOIN_SUBTYPE == 1
DSS_SUBTYPE == 2
ADD_ADDR_SUBTYPE == 3

(***************************************************************************)
(* Fixed-width integers.                                                   *)
(***************************************************************************)
Reverse(s) == [i \in 1..Len(s) |-> s[Len(s) + 1 - i]]

RECURSIVE CarryInto(_, _, _)
\* The carry into byte i of a + b, bytes numbered from the most significant.
CarryInto(a, b, i) ==
    IF i = Len(a) THEN 0
    ELSE (a[i + 1] + b[i + 1] + CarryInto(a, b, i + 1)) \div 256

\* a + b modulo 256^Len(a), on byte tuples of the same length.
AddBytes(a, b) ==
    [i \in 1..Len(a) |-> (a[i] + b[i] + CarryInto(a, b, i)) % 256]

\* A small natural number as a u64 and as a u32.
U64(n) == [i \in 1..8 |-> IF i <= 5 THEN 0 ELSE (n \div (256 ^ (8 - i))) % 256]
U32(n) == [i \in 1..4 |-> IF i = 1 THEN 0 ELSE (n \div (256 ^ (4 - i))) % 256]

htobe64(v) == Reverse(v)
htonl(v) == Reverse(v)
\* 16-bit values are plain numbers.
htons(n) == ((n % 256) * 256) + ((n \div 256) % 256)
ntohs(n) == htons(n)
ToU16(n) == n % 65536

(***************************************************************************)
(* SHA-1 of the 8-byte network-order serialisation of a key, for the keys  *)
(* of the model.                                                           *)
(***************************************************************************)
KeyZero == <<0, 0, 0, 0, 0, 0, 0, 0>>
KeyScript1 == <<0, 0, 0, 0, 0, 0, 0, 1>>
KeyScript2 == <<0, 0, 0, 0, 0, 0, 0, 2>>
KeyRand == <<17, 34, 51, 68, 85, 102, 119, 136>>
KeyLive == <<170, 187, 204, 221, 238, 255, 0, 17>>

sha1(key) ==
    CASE key = KeyZero ->
           <<5, 254, 64, 87, 83, 22, 111, 18, 85, 89, 231, 201, 172, 85, 134,
             84, 241, 7, 199, 233>>
      [] key = KeyScript1 ->
           <<203, 71, 54, 120, 151, 111, 66, 93, 110, 193, 51, 152, 56, 241,
             16, 17, 0, 122, 210, 125>>
      [] key = KeyScript2 ->
           <<7, 170, 225, 182, 24, 246, 4, 198, 132, 238, 49, 137, 250, 23, 35,
             190, 248, 101, 111, 228>>
      [] key = KeyRand ->
           <<189, 192, 76, 9, 146, 243, 127, 30, 56, 137, 242, 116, 208, 84,
             156, 192, 64, 88, 17, 213>>
      [] key = KeyLive ->
           <<235, 223, 233, 50, 4, 5, 170, 184, 137, 91, 23, 164, 20, 219, 238,
             188, 179, 75, 225, 180>>

sha1_least_64bits(key) == SubSeq(sha1(key), 13, 20)
sha1_least_32bits(key) == SubSeq(sha1(key), 1, 4)

\* HMAC-SHA1 is kept symbolic: the tag is named by the key and message bytes.
hmac_sha1(key_bytes, msg_bytes) == <<"hmac_sha1", key_bytes, msg_bytes>>
hmac_sha1_truncat_64(key_bytes, msg_bytes) ==
    <<"leading64", hmac_sha1(key_bytes, msg_bytes)>>
\* htobe64 of a symbolic 64-bit value.
htobe64_tag(t) == <<"htobe64", t>>

(***************************************************************************)
(* Input alphabets.                                                        *)
(***************************************************************************)
Names == {"c", "s"}
RandKeys == {KeyRand}
LiveKeys == {KeyLive}
ScriptKeys == {KeyScript1, KeyScript2}
Rand32 == {<<222, 173, 190, 239>>, <<1, 2, 3, 4>>}
LiveAddrIds == {5}

\* mp_state: the session; running: the script is parsed and its packets are
\* being processed; last: the last call and what it wrote; crashed: the
\* process died.
VARIABLES mp_state, running, last, crashed, recording, trace

vars == <<mp_state, running, last, crashed, recording, trace>>

(***************************************************************************)
(* The variable store: the queue of names awaiting a value and the         *)
(* hashmap of bindings. A binding holds either a copy of a value given by  *)
(* the script or a pointer to one of the two key fields of mp_state.       *)
(***************************************************************************)
NoVar ==
    [name |-> "", mptcp_subtype |-> -1, script_defined |-> FALSE,
     ref |-> "none", value |-> KeyZero]

\* The copy of the name is made without its terminating zero byte: what is
\* read back from the queue is the name followed by the bytes that lie after
\* the copy, up to the first zero byte.
enqueue_var(mp, name, tail) ==
    [mp EXCEPT !.vars_queue = Append(@, name \o tail)]

add_mp_var(mp, var) ==
    [mp EXCEPT !.vars = Append(@, var)]

add_mp_var_key(mp, name, key_field) ==
    add_mp_var(mp, [name |-> name, mptcp_subtype |-> MP_CAPABLE_SUBTYPE,
                    script_defined |-> FALSE, ref |-> key_field,
                    value |-> KeyZero])

add_mp_var_script_defined(mp, name, value) ==
    add_mp_var(mp, [name |-> name, mptcp_subtype |-> MP_CAPABLE_SUBTYPE,
                    script_defined |-> TRUE, ref |-> "owned",
                    value |-> value])

\* HASH_FIND_STR: of several bindings added under one name the hashmap
\* returns the one added last (a bucket is searched from its newest item).
find_mp_var(mp, name) ==
    LET hits == {i \in 1..Len(mp.vars) : mp.vars[i].name = name}
    IN  IF hits = {} THEN NoVar
        ELSE mp.vars[CHOOSE i \in hits : \A j \in hits : j <= i]

\* *(u64*)var->value
DerefValue(mp, var) ==
    CASE var.ref = "packetdrill_key" -> mp.packetdrill_key
      [] var.ref = "kernel_key" -> mp.kernel_key
      [] OTHER -> var.value

set_packetdrill_key(mp, sender_key) ==
    [mp EXCEPT !.packetdrill_key = sender_key, !.packetdrill_key_set = TRUE]

set_kernel_key(mp, receiver_key) ==
    [mp EXCEPT !.kernel_key = receiver_key, !.kernel_key_set = TRUE]

\* The value of var, the binding of the name dequeued; mp1 is the state
\* after the dequeue.
KeyOfVar(mp, mp1, var) ==
    IF var = NoVar \/ var.mptcp_subtype # MP_CAPABLE_SUBTYPE
    THEN [mp |-> mp1, found |-> FALSE, key |-> KeyZero]
    ELSE [mp |-> mp1, found |-> TRUE, key |-> DerefValue(mp, var)]

\* A variant that reads the front name and leaves it in the queue.
find_next_key_peek(mp) ==
    IF Len(mp.vars_queue) = 0
    THEN [mp |-> mp, found |-> FALSE, key |-> KeyZero]
    ELSE KeyOfVar(mp, mp, find_mp_var(mp, Head(mp.vars_queue)))

\* The front name is dequeued even when no value is found for it.
find_next_key(mp) ==
    IF Len(mp.vars_queue) = 0
    THEN [mp |-> mp, found |-> FALSE, key |-> KeyZero]
    ELSE KeyOfVar(mp, [mp EXCEPT !.vars_queue = Tail(@)],
                  find_mp_var(mp, Head(mp.vars_queue)))

IsScriptDefined(var) ==
    /\ var # NoVar
    /\ var.mptcp_subtype = MP_CAPABLE_SUBTYPE
    /\ var.script_defined

(***************************************************************************)
(* The subflow list. A new subflow is put at the head of the list; the     *)
(* fields malloc leaves unset hold an arbitrary value, given by e.         *)
(***************************************************************************)
NoSubflow == 0

\* A variant that leaves last_packetdrill_addr_id as it is.
new_subflow_inbound_same_id(mp, inbound_packet, e) ==
    IF inbound_packet.ipver \notin {4, 6}
    THEN [mp |-> mp, subflow |-> NoSubflow]
    ELSE [mp |-> [mp EXCEPT
                    !.subflows =
                        <<[src_port |-> ntohs(inbound_packet.src_port),
                           dst_port |-> ntohs(inbound_packet.dst_port),
                           packetdrill_rand_nbr |-> e.generate_32,
                           kernel_rand_nbr |-> e.junk32,
                           packetdrill_addr_id |-> mp.last_packetdrill_addr_id,
                           kernel_addr_id |-> e.junk8,
                           subflow_sequence_number |-> U32(0)]>> \o @],
          subflow |-> 1]

new_subflow_inbound(mp, inbound_packet, e) ==
    IF inbound_packet.ipver \notin {4, 6}
    THEN [mp |-> mp, subflow |-> NoSubflow]
    ELSE LET subflow ==
                 [src_port |-> ntohs(inbound_packet.src_port),
                  dst_port |-> ntohs(inbound_packet.dst_port),
                  packetdrill_rand_nbr |-> e.generate_32,
                  kernel_rand_nbr |-> e.junk32,
                  packetdrill_addr_id |-> mp.last_packetdrill_addr_id,
                  kernel_addr_id |-> e.junk8,
                  subflow_sequence_number |-> U32(0)]
         IN  [mp |-> [mp EXCEPT
                        !.last_packetdrill_addr_id = (@ + 1) % 256,
                        !.subflows = <<subflow>> \o @],
              subflow |-> 1]

\* mp_join_syn is the first MPTCP option of the packet given: its random
\* number and address id are read through the MP_JOIN layout.
new_subflow_outbound(mp, outbound_packet, mp_join_syn, e) ==
    IF ~mp_join_syn.present \/ outbound_packet.ipver \notin {4, 6}
    THEN [mp |-> mp, subflow |-> NoSubflow]
    ELSE LET subflow ==
                 [src_port |-> ntohs(outbound_packet.dst_port),
                  dst_port |-> ntohs(outbound_packet.src_port),
                  packetdrill_rand_nbr |-> e.junk32,
                  kernel_rand_nbr |-> mp_join_syn.sender_random_number,
                  packetdrill_addr_id |-> e.junk8,
                  kernel_addr_id |-> mp_join_syn.address_id,
                  subflow_sequence_number |-> U32(0)]
         IN  [mp |-> [mp EXCEPT !.subflows = <<subflow>> \o @],
              subflow |-> 1]

does_subflow_match_outbound_packet(subflow, outbound_packet) ==
    /\ subflow.dst_port = ntohs(outbound_packet.src_port)
    /\ subflow.src_port = ntohs(outbound_packet.dst_port)

\* A variant that compares with the ports as they are in the TCP header.
does_subflow_match_inbound_packet_raw(subflow, inbound_packet) ==
    /\ subflow.dst_port = inbound_packet.dst_port
    /\ subflow.src_port = inbound_packet.src_port

does_subflow_match_inbound_packet(subflow, inbound_packet) ==
    /\ subflow.dst_port = ntohs(inbound_packet.dst_port)
    /\ subflow.src_port = ntohs(inbound_packet.src_port)

\* The index in mp.subflows of the first subflow that matches, or NoSubflow.
\* (*match)(subflow, packet), match being the name of one of the two.
CallMatch(match, subflow, packet) ==
    IF match = "does_subflow_match_outbound_packet"
    THEN does_subflow_match_outbound_packet(subflow, packet)
    ELSE does_subflow_match_inbound_packet(subflow, packet)

find_matching_subflow(mp, packet, match) ==
    LET hits == {i \in 1..Len(mp.subflows) :
                    CallMatch(match, mp.subflows[i], packet)}
    IN  IF hits = {} THEN NoSubflow
        ELSE CHOOSE i \in hits : \A j \in hits : i <= j

find_subflow_matching_outbound_packet(mp, outbound_packet) ==
    find_matching_subflow(mp, outbound_packet,
                          "does_subflow_match_outbound_packet")

find_subflow_matching_inbound_packet(mp, inbound_packet) ==
    find_matching_subflow(mp, inbound_packet,
                          "does_subflow_match_inbound_packet")

(***************************************************************************)
(* The fields of an MPTCP option that the engine writes. A field not       *)
(* written holds <<>> (a byte field) or -1 (a number).                     *)
(***************************************************************************)
BlankFields ==
    [key |-> <<>>, sender_key |-> <<>>, receiver_key |-> <<>>,
     receiver_token |-> <<>>, sender_random_number |-> <<>>,
     address_id |-> -1, sender_hmac |-> <<>>,
     data_seq_nbr_8oct |-> <<>>, data_level_length |-> -1,
     subflow_seq_nbr |-> <<>>, data_ack_8oct |-> <<>>]

\* What a subroutine hands back: the state, the option's fields, the value
\* returned, whether the process died in it, whether rand_64 was called.
Ret(mp, opt, error) ==
    [mp |-> mp, opt |-> opt, error |-> error, crash |-> FALSE,
     drew |-> FALSE]

\* a || b of two C ints.
LogicalOr(a, b) == IF a # 0 \/ b # 0 THEN 1 ELSE 0

(***************************************************************************)
(* MP_CAPABLE.                                                             *)
(***************************************************************************)
\* The key of the script, if the name at the front has one.
GenKeyScriptDefined(mp, snd_var) ==
    IF IsScriptDefined(snd_var)
    THEN set_packetdrill_key(mp, DerefValue(mp, snd_var))
    ELSE mp

\* A variant that draws a new key whether or not there is one.
GenKeyAlways(mp, snd_var_name, e) ==
    [Ret(add_mp_var_key(set_packetdrill_key(mp, e.rand_64),
                        snd_var_name, "packetdrill_key"),
         BlankFields, STATUS_OK)
        EXCEPT !.drew = TRUE]

\* A new key, if there is none yet.
GenKeyIfUnset(mp, snd_var_name, e) ==
    [Ret(IF ~mp.packetdrill_key_set
         THEN add_mp_var_key(set_packetdrill_key(mp, e.rand_64),
                             snd_var_name, "packetdrill_key")
         ELSE mp,
         BlankFields, STATUS_OK)
        EXCEPT !.drew = ~mp.packetdrill_key_set]

mptcp_gen_key(mp, e) ==
    IF Len(mp.vars_queue) = 0
    THEN Ret(mp, BlankFields, STATUS_ERR)
    ELSE GenKeyIfUnset(
             GenKeyScriptDefined(mp, find_mp_var(mp, Head(mp.vars_queue))),
             Head(mp.vars_queue), e)

\* What find_next_key hands back is k.
SetSynKey(k, opt) ==
    IF ~k.found THEN Ret(k.mp, opt, STATUS_ERR)
    ELSE Ret(k.mp, [opt EXCEPT !.key = k.key], STATUS_OK)

mptcp_set_mp_cap_syn_key(mp, opt) == SetSynKey(find_next_key(mp), opt)

\* The second key, k2, after the first, k1, was found.
SetReceiverKey(k1, k2, opt) ==
    IF ~k2.found
    THEN Ret(k2.mp, [opt EXCEPT !.sender_key = k1.key], STATUS_ERR)
    ELSE Ret(k2.mp, [opt EXCEPT !.sender_key = k1.key,
                                !.receiver_key = k2.key], STATUS_OK)

SetSenderKey(k1, opt) ==
    IF ~k1.found THEN Ret(k1.mp, opt, STATUS_ERR)
    ELSE SetReceiverKey(k1, find_next_key(k1.mp), opt)

\* A variant that writes the two keys the other way round.
SwapKeys(r) ==
    [r EXCEPT !.opt.sender_key = r.opt.receiver_key,
              !.opt.receiver_key = r.opt.sender_key]

mptcp_set_mp_cap_keys_swapped(mp, opt) ==
    SwapKeys(SetSenderKey(find_next_key(mp), opt))

mptcp_set_mp_cap_keys(mp, opt) == SetSenderKey(find_next_key(mp), opt)

\* The key of the script, if the name at the front has one.
KernelKeyScriptDefined(mp, var) ==
    IF IsScriptDefined(var)
    THEN set_kernel_key(mp, DerefValue(mp, var))
    ELSE mp

\* The key of the live packet, if there is none yet.
KernelKeyIfUnset(mp, mpcap_opt) ==
    IF mp.kernel_key_set
    THEN Ret(mp, BlankFields, STATUS_OK)
    ELSE IF Len(mp.vars_queue) = 0
    THEN Ret(set_kernel_key(mp, mpcap_opt.key), BlankFields, STATUS_ERR)
    ELSE Ret(add_mp_var_key(set_kernel_key(mp, mpcap_opt.key),
                            Head(mp.vars_queue), "kernel_key"),
             BlankFields, STATUS_OK)

\* mpcap_opt is the first MPTCP option of the live packet.
extract_and_set_kernel_key(mp, mpcap_opt) ==
    IF ~mpcap_opt.present
    THEN Ret(mp, BlankFields, STATUS_ERR)
    ELSE KernelKeyIfUnset(
             KernelKeyScriptDefined(
                 mp, IF Len(mp.vars_queue) = 0 THEN NoVar
                     ELSE find_mp_var(mp, Head(mp.vars_queue))),
             mpcap_opt)

\* The first MPTCP option of the script packet itself, read as an MP_JOIN
\* SYN option: the bytes found there are not MP_JOIN fields.
OwnOptionAsJoinSyn(e) ==
    [present |-> TRUE, key |-> KeyZero,
     sender_random_number |-> e.junk32, address_id |-> e.junk8]

\* error = mptcp_set_mp_cap_syn_key(tcp_opt_to_modify) || error, g being
\* what mptcp_gen_key handed back and s what the key write did.
OrError(s, g) ==
    [s EXCEPT !.error = LogicalOr(s.error, g.error), !.drew = g.drew]

SynKeyAfterGenKey(g, opt) == OrError(mptcp_set_mp_cap_syn_key(g.mp, opt), g)

MpCapableInboundSyn(mp, opt, e) == SynKeyAfterGenKey(mptcp_gen_key(mp, e), opt)

\* The error of extract_and_set_kernel_key is overwritten.
MpCapableOutboundSyn(mp, live_option, opt) ==
    mptcp_set_mp_cap_syn_key(extract_and_set_kernel_key(mp, live_option).mp,
                             opt)

\* The subflow of the ACK; mp is the state with initial_dsn assigned and k
\* what mptcp_set_mp_cap_keys handed back.
MpCapableAckSubflow(mp, k, packet_to_modify, direction, e) ==
    IF direction = "DIRECTION_INBOUND"
    THEN [k EXCEPT !.mp = new_subflow_inbound(mp, packet_to_modify, e).mp]
    ELSE IF direction = "DIRECTION_OUTBOUND"
    THEN [k EXCEPT !.mp = new_subflow_outbound(mp, packet_to_modify,
                                               OwnOptionAsJoinSyn(e), e).mp]
    ELSE Ret(mp, k.opt, STATUS_ERR)

MpCapableAckInitialDsn(k, packet_to_modify, direction, e) ==
    MpCapableAckSubflow(
        [k.mp EXCEPT !.initial_dsn = sha1_least_64bits(k.mp.packetdrill_key)],
        k, packet_to_modify, direction, e)

MpCapableAck(mp, packet_to_modify, opt, direction, e) ==
    MpCapableAckInitialDsn(mptcp_set_mp_cap_keys(mp, opt), packet_to_modify,
                           direction, e)

mptcp_subtype_mp_capable(mp, packet_to_modify, live_option, o, direction, e) ==
    IF /\ o.length = TCPOLEN_MP_CAPABLE_SYN
       /\ packet_to_modify.syn
       /\ direction = "DIRECTION_INBOUND"
       /\ ~packet_to_modify.ack
    THEN MpCapableInboundSyn(mp, BlankFields, e)
    ELSE IF /\ o.length = TCPOLEN_MP_CAPABLE_SYN
            /\ packet_to_modify.syn
            /\ direction = "DIRECTION_OUTBOUND"
    THEN MpCapableOutboundSyn(mp, live_option, BlankFields)
    ELSE IF /\ o.length = TCPOLEN_MP_CAPABLE
            /\ ~packet_to_modify.syn
            /\ packet_to_modify.ack
    THEN MpCapableAck(mp, packet_to_modify, BlankFields, direction, e)
    ELSE IF /\ o.length = TCPOLEN_MP_CAPABLE_SYN
            /\ packet_to_modify.syn
            /\ direction = "DIRECTION_INBOUND"
            /\ packet_to_modify.ack
    THEN MpCapableInboundSyn(mp, BlankFields, e)
    ELSE Ret(mp, BlankFields, STATUS_ERR)

(***************************************************************************)
(* MP_JOIN. The 16-byte HMAC key is two u64 stored one after the other,    *)
(* the 8-byte message two u32: what is hashed is their bytes in memory.    *)
(***************************************************************************)
MemBytes(v) == Reverse(v)

HmacKey(first_key, second_key) == MemBytes(first_key) \o MemBytes(second_key)
HmacMsg(first_rand, second_rand) == MemBytes(first_rand) \o MemBytes(second_rand)

\* A dereference of a null pointer: the process dies, or it goes on with
\* whatever was read and with no effect of what was written.
Crash(mp) == [Ret(mp, BlankFields, STATUS_ERR) EXCEPT !.crash = TRUE]

\* A variant that leaves the token in host byte order.
JoinTokenHostOrder(mp) == sha1_least_32bits(mp.kernel_key)

JoinToken(mp) == htonl(sha1_least_32bits(mp.kernel_key))

MpJoinInboundSyn(mp, packet_to_modify, e) ==
    LET n == new_subflow_inbound(mp, packet_to_modify, e)
        subflow == n.mp.subflows[n.subflow]
    IN  IF n.subflow = NoSubflow THEN Ret(mp, BlankFields, STATUS_ERR)
        ELSE Ret(n.mp,
                 [BlankFields EXCEPT
                    !.receiver_token = JoinToken(n.mp),
                    !.sender_random_number = subflow.packetdrill_rand_nbr,
                    !.address_id = subflow.packetdrill_addr_id],
                 STATUS_OK)

MpJoinOutboundSynAckHmac(mp, subflow) ==
    hmac_sha1_truncat_64(
        HmacKey(mp.kernel_key, mp.packetdrill_key),
        HmacMsg(subflow.kernel_rand_nbr, subflow.packetdrill_rand_nbr))

MpJoinOutboundSynAck(mp, live_packet, live_mp_join) ==
    LET i == find_subflow_matching_outbound_packet(mp, live_packet)
        mp1 == [mp EXCEPT
                  !.subflows[i].kernel_addr_id = live_mp_join.address_id,
                  !.subflows[i].kernel_rand_nbr =
                      live_mp_join.sender_random_number]
    IN  IF i = NoSubflow \/ ~live_mp_join.present
        THEN Ret(mp, BlankFields, STATUS_ERR)
        ELSE Ret(mp1,
                 [BlankFields EXCEPT
                    !.address_id = live_mp_join.address_id,
                    !.sender_random_number =
                        live_mp_join.sender_random_number,
                    !.sender_hmac =
                        MpJoinOutboundSynAckHmac(mp1, mp1.subflows[i])],
                 STATUS_OK)

MpJoinInboundAckHmac(mp, subflow) ==
    hmac_sha1(
        HmacKey(mp.packetdrill_key, mp.kernel_key),
        HmacMsg(subflow.packetdrill_rand_nbr, subflow.kernel_rand_nbr))

MpJoinInboundAck(mp, packet_to_modify) ==
    LET i == find_subflow_matching_inbound_packet(mp, packet_to_modify)
    IN  IF i = NoSubflow THEN Ret(mp, BlankFields, STATUS_ERR)
        ELSE Ret(mp,
                 [BlankFields EXCEPT
                    !.sender_hmac = MpJoinInboundAckHmac(mp, mp.subflows[i])],
                 STATUS_OK)

MpJoinOutboundSyn(mp, live_packet, live_mp_join, e) ==
    LET n == new_subflow_outbound(mp, live_packet, live_mp_join, e)
        subflow == n.mp.subflows[n.subflow]
    IN  IF n.subflow = NoSubflow
        THEN IF e.null_deref = "crash" THEN Crash(mp)
             ELSE Ret(mp,
                      [BlankFields EXCEPT
                         !.address_id = e.junk8,
                         !.sender_random_number = htonl(e.junk32),
                         !.receiver_token = JoinToken(mp)],
                      STATUS_OK)
        ELSE Ret(n.mp,
                 [BlankFields EXCEPT
                    !.address_id = subflow.kernel_addr_id,
                    !.sender_random_number = htonl(subflow.kernel_rand_nbr),
                    !.receiver_token = JoinToken(n.mp)],
                 STATUS_OK)

MpJoinInboundSynAckHmac(mp, subflow) ==
    htobe64_tag(hmac_sha1_truncat_64(
        HmacKey(mp.packetdrill_key, mp.kernel_key),
        HmacMsg(subflow.packetdrill_rand_nbr, subflow.kernel_rand_nbr)))

MpJoinInboundSynAck(mp, packet_to_modify, e) ==
    LET i == find_subflow_matching_inbound_packet(mp, packet_to_modify)
        mp1 == [mp EXCEPT
                  !.subflows[i].packetdrill_rand_nbr = e.generate_32,
                  !.last_packetdrill_addr_id = (@ + 1) % 256]
    IN  IF i = NoSubflow THEN Ret(mp, BlankFields, STATUS_ERR)
        ELSE Ret(mp1,
                 [BlankFields EXCEPT
                    !.address_id = mp.last_packetdrill_addr_id,
                    !.sender_random_number =
                        htonl(mp1.subflows[i].packetdrill_rand_nbr),
                    !.sender_hmac =
                        MpJoinInboundSynAckHmac(mp1, mp1.subflows[i])],
                 STATUS_OK)

\* A variant with the inputs in the order of an inbound ACK.
MpJoinOutboundAckHmacAsInbound(mp, subflow) ==
    hmac_sha1(
        HmacKey(mp.packetdrill_key, mp.kernel_key),
        HmacMsg(subflow.packetdrill_rand_nbr, subflow.kernel_rand_nbr))

MpJoinOutboundAckHmac(mp, subflow) ==
    hmac_sha1(
        HmacKey(mp.kernel_key, mp.packetdrill_key),
        HmacMsg(subflow.kernel_rand_nbr, subflow.packetdrill_rand_nbr))

MpJoinOutboundAck(mp, packet_to_modify) ==
    LET i == find_subflow_matching_outbound_packet(mp, packet_to_modify)
    IN  IF i = NoSubflow THEN Ret(mp, BlankFields, STATUS_ERR)
        ELSE Ret(mp,
                 [BlankFields EXCEPT
                    !.sender_hmac = MpJoinOutboundAckHmac(mp, mp.subflows[i])],
                 STATUS_OK)

\* A variant that does not look at the length of the option.
mptcp_subtype_mp_join_any_length(mp, packet_to_modify, live_packet, live_option, o, direction, e) ==
    IF direction = "DIRECTION_INBOUND"
    THEN IF packet_to_modify.syn /\ ~packet_to_modify.ack
         THEN MpJoinInboundSyn(mp, packet_to_modify, e)
         ELSE IF packet_to_modify.syn
         THEN MpJoinInboundSynAck(mp, packet_to_modify, e)
         ELSE IF packet_to_modify.ack
         THEN MpJoinInboundAck(mp, packet_to_modify)
         ELSE Ret(mp, BlankFields, STATUS_ERR)
    ELSE IF direction = "DIRECTION_OUTBOUND"
    THEN IF packet_to_modify.syn /\ ~packet_to_modify.ack
         THEN MpJoinOutboundSyn(mp, live_packet, live_option, e)
         ELSE IF packet_to_modify.syn
         THEN MpJoinOutboundSynAck(mp, live_packet, live_option)
         ELSE IF packet_to_modify.ack
         THEN MpJoinOutboundAck(mp, packet_to_modify)
         ELSE Ret(mp, BlankFields, STATUS_ERR)
    ELSE Ret(mp, BlankFields, STATUS_ERR)

mptcp_subtype_mp_join(mp, packet_to_modify, live_packet, live_option, o, direction, e) ==
    IF /\ direction = "DIRECTION_INBOUND"
       /\ ~packet_to_modify.ack
       /\ packet_to_modify.syn
       /\ o.length = TCPOLEN_MP_JOIN_SYN
    THEN MpJoinInboundSyn(mp, packet_to_modify, e)
    ELSE IF /\ direction = "DIRECTION_OUTBOUND"
            /\ packet_to_modify.ack
            /\ packet_to_modify.syn
            /\ o.length = TCPOLEN_MP_JOIN_SYN_ACK
    THEN MpJoinOutboundSynAck(mp, live_packet, live_option)
    ELSE IF /\ direction = "DIRECTION_INBOUND"
            /\ packet_to_modify.ack
            /\ ~packet_to_modify.syn
            /\ o.length = TCPOLEN_MP_JOIN_ACK
    THEN MpJoinInboundAck(mp, packet_to_modify)
    ELSE IF /\ direction = "DIRECTION_OUTBOUND"
            /\ ~packet_to_modify.ack
            /\ packet_to_modify.syn
            /\ o.length = TCPOLEN_MP_JOIN_SYN
    THEN MpJoinOutboundSyn(mp, live_packet, live_option, e)
    ELSE IF /\ direction = "DIRECTION_INBOUND"
            /\ packet_to_modify.ack
            /\ packet_to_modify.syn
            /\ o.length = TCPOLEN_MP_JOIN_SYN_ACK
    THEN MpJoinInboundSynAck(mp, packet_to_modify, e)
    ELSE IF /\ direction = "DIRECTION_OUTBOUND"
            /\ packet_to_modify.ack
            /\ ~packet_to_modify.syn
            /\ o.length = TCPOLEN_MP_JOIN_ACK
    THEN MpJoinOutboundAck(mp, packet_to_modify)
    ELSE Ret(mp, BlankFields, STATUS_ERR)

(***************************************************************************)
(* DSS.                                                                    *)
(***************************************************************************)
\* u16 tcp_payload_length, from ip_bytes, doff and the ihl read.
DssPayloadLength(packet_to_modify, ihl) ==
    LET packet_total_length == ToU16(packet_to_modify.ip_bytes)
        tcp_header_length == ToU16(packet_to_modify.doff * 4)
        ip_header_length == ToU16(ihl * 8)
        tcp_header_wo_options == 20
    IN  ToU16(65536 * 4 + packet_total_length - ip_header_length
              - (tcp_header_length - tcp_header_wo_options))

\* A variant that adds nothing for the option without checksum.
DssDsnValueNoIncrement(mp, o) ==
    htobe64(AddBytes(mp.initial_dsn, o.raw_dsn))

DssDsnValue(mp, o) ==
    IF o.length = TCPOLEN_DSS_DSN8
    THEN htobe64(AddBytes(mp.initial_dsn, o.raw_dsn))
    ELSE htobe64(AddBytes(AddBytes(mp.initial_dsn, o.raw_dsn), U64(1)))

DssDackValue(mp, o) == htobe64(AddBytes(mp.initial_dack, o.raw_dack))

\* The DSN branches: packet_to_modify->ipv4 is null unless the packet is an
\* IPv4 packet, and the subflow looked up is null when none matches.
DssDsn(mp, packet_to_modify, o, e) ==
    LET ihl == IF packet_to_modify.ipver = 4 THEN packet_to_modify.ihl
               ELSE e.junk8 % 16
        tcp_payload_length == DssPayloadLength(packet_to_modify, ihl)
        i == find_subflow_matching_inbound_packet(mp, packet_to_modify)
        opt == [BlankFields EXCEPT
                  !.data_seq_nbr_8oct = DssDsnValue(mp, o),
                  !.data_level_length = htons(tcp_payload_length)]
    IN  IF packet_to_modify.ipver # 4 /\ e.null_deref = "crash"
        THEN Crash(mp)
        ELSE IF i = NoSubflow
        THEN IF e.null_deref = "crash" THEN Crash(mp)
             ELSE Ret(mp, [opt EXCEPT !.subflow_seq_nbr = htonl(e.junk32)],
                      STATUS_OK)
        ELSE Ret([mp EXCEPT !.subflows[i].subflow_sequence_number =
                                AddBytes(@, U32(tcp_payload_length))],
                 [opt EXCEPT !.subflow_seq_nbr =
                      htonl(mp.subflows[i].subflow_sequence_number)],
                 STATUS_OK)

mptcp_subtype_dss(mp, packet_to_modify, o, direction, e) ==
    IF direction = "DIRECTION_INBOUND"
    THEN LET d == IF o.flag_dsn /\ o.length \in {TCPOLEN_DSS_DSN8,
                                                 TCPOLEN_DSS_DSN8_WOCS}
                  THEN DssDsn(mp, packet_to_modify, o, e)
                  ELSE Ret(mp, BlankFields, STATUS_OK)
         IN  IF d.crash \/ ~o.flag_dack THEN d
             ELSE [d EXCEPT !.opt.data_ack_8oct = DssDackValue(mp, o)]
    ELSE IF direction = "DIRECTION_OUTBOUND"
    THEN Ret(mp, BlankFields, STATUS_OK)
    ELSE Ret(mp, BlankFields, STATUS_ERR)

(***************************************************************************)
(* The entry point: every TCP option of the packet in header order.        *)
(***************************************************************************)
TCPOPT_NOP == 1
TCPOPT_MPTCP == 30

DispatchSubtype(mp, packet_to_modify, live_packet, live_option, o, direction, e) ==
    CASE o.subtype = MP_CAPABLE_SUBTYPE ->
           mptcp_subtype_mp_capable(mp, packet_to_modify, live_option, o,
                                    direction, e)
      [] o.subtype = MP_JOIN_SUBTYPE ->
           mptcp_subtype_mp_join(mp, packet_to_modify, live_packet,
                                 live_option, o, direction, e)
      [] o.subtype = DSS_SUBTYPE ->
           mptcp_subtype_dss(mp, packet_to_modify, o, direction, e)
      [] OTHER -> Ret(mp, BlankFields, STATUS_ERR)

\* A variant that goes on to the next option whatever this one returned.
AfterOptionNoAbort(r, s) ==
    [mp |-> s.mp, opts |-> Append(r.opts, s.opt), status |-> STATUS_OK,
     crash |-> s.crash, drew |-> r.drew \/ s.drew]

\* r is the outcome of the options before this one: the state, the fields
\* written in each option visited, the status, and the two flags; s is what
\* the subroutine of this option handed back.
AfterOption(r, s) ==
    [mp |-> s.mp, opts |-> Append(r.opts, s.opt),
     status |-> IF s.error # 0 \/ s.crash THEN STATUS_ERR ELSE STATUS_OK,
     crash |-> s.crash, drew |-> r.drew \/ s.drew]

VisitOption(r, packet_to_modify, live_packet, live_option, o, direction, e) ==
    IF o.kind # TCPOPT_MPTCP
    THEN [r EXCEPT !.opts = Append(@, BlankFields)]
    ELSE AfterOption(r, DispatchSubtype(r.mp, packet_to_modify, live_packet,
                                        live_option, o, direction, e))

RECURSIVE OptionsFrom(_, _, _, _, _, _, _)
\* The options from the i-th on; the first error ends the loop.
OptionsFrom(r, packet_to_modify, live_packet, live_option, direction, envs, i) ==
    IF i > Len(packet_to_modify.opts) \/ r.status # STATUS_OK THEN r
    ELSE OptionsFrom(VisitOption(r, packet_to_modify, live_packet,
                                 live_option, packet_to_modify.opts[i],
                                 direction, envs[i]),
                     packet_to_modify, live_packet, live_option, direction,
                     envs, i + 1)

mptcp_insert_and_extract_opt_fields(mp, packet_to_modify, live_packet, live_option, direction, envs) ==
    OptionsFrom([mp |-> mp, opts |-> <<>>, status |-> STATUS_OK,
                 crash |-> FALSE, drew |-> FALSE],
                packet_to_modify, live_packet, live_option, direction, envs,
                1)

(***************************************************************************)
(* Packets. A port pair is <<port of the tool, port of the kernel>> as     *)
(* found in the TCP header; an inbound packet goes from the tool to the    *)
(* kernel, an outbound packet the other way. The live packet of an         *)
(* outbound packet has the headers of the script packet and its own MPTCP  *)
(* option, if any.                                                         *)
(***************************************************************************)
IpHeaderBytes(ipver, ihl) ==
    IF ipver = 4 THEN ihl * 4 ELSE IF ipver = 6 THEN 40 ELSE 0

Packet(direction, syn, ack, ipver, ports, ihl, doff, payload, opts) ==
    [syn |-> syn, ack |-> ack, ipver |-> ipver,
     src_port |-> IF direction = "DIRECTION_INBOUND" THEN ports[1]
                  ELSE ports[2],
     dst_port |-> IF direction = "DIRECTION_INBOUND" THEN ports[2]
                  ELSE ports[1],
     ihl |-> ihl, doff |-> doff,
     ip_bytes |-> IpHeaderBytes(ipver, ihl) + doff * 4 + payload,
     opts |-> opts]

\* The TCP payload bytes the packet carries.
TcpPayloadBytes(packet) ==
    packet.ip_bytes - IpHeaderBytes(packet.ipver, packet.ihl)
    - packet.doff * 4

Option(kind, subtype, length) ==
    [kind |-> kind, subtype |-> subtype, length |-> length,
     flag_dsn |-> FALSE, flag_dack |-> FALSE,
     raw_dsn |-> KeyZero, raw_dack |-> KeyZero]

DssOption(length, flag_dsn, flag_dack, raw_dsn, raw_dack) ==
    [kind |-> TCPOPT_MPTCP, subtype |-> DSS_SUBTYPE, length |-> length,
     flag_dsn |-> flag_dsn, flag_dack |-> flag_dack,
     raw_dsn |-> raw_dsn, raw_dack |-> raw_dack]

NoLiveOption ==
    [present |-> FALSE, key |-> KeyZero,
     sender_random_number |-> U32(0), address_id |-> 0]

LiveOption(key, rand, addr_id) ==
    [present |-> TRUE, key |-> key,
     sender_random_number |-> rand, address_id |-> addr_id]

\* What the environment decides during one option: the random numbers
\* drawn, the content of memory never written, the effect of a null
\* dereference.
Env(rand_64, generate_32, junk32, junk8, null_deref) ==
    [rand_64 |-> rand_64, generate_32 |-> generate_32, junk32 |-> junk32,
     junk8 |-> junk8, null_deref |-> null_deref]

Junk32 == {U32(0), <<85, 85, 85, 85>>}
Junk8 == {0, 7}
DefaultEnv ==
    Env(KeyRand, <<222, 173, 190, 239>>, U32(0), 0, "crash")

Directions == {"DIRECTION_INBOUND", "DIRECTION_OUTBOUND"}

(***************************************************************************)
(* The state and its initial value: init_mp_state on the zeroed global.    *)
(***************************************************************************)
NoCall ==
    [op |-> "none", direction |-> "none",
     packet |-> Packet("none", FALSE, FALSE, 0, <<0, 0>>, 0, 0, 0, <<>>),
     live |-> NoLiveOption, status |-> STATUS_OK, opts |-> <<>>,
     drew |-> FALSE]

init_mp_state ==
    [packetdrill_key |-> KeyZero, packetdrill_key_set |-> FALSE,
     kernel_key |-> KeyZero, kernel_key_set |-> FALSE,
     vars_queue |-> <<>>, vars |-> <<>>,
     last_packetdrill_addr_id |-> 0,
     initial_dsn |-> KeyZero, initial_dack |-> KeyZero,
     subflows |-> <<>>]

Init ==
    /\ mp_state = init_mp_state
    /\ running = FALSE
    /\ last = NoCall
    /\ crashed = FALSE
    /\ recording = FALSE
    /\ trace = <<>>

\* The same state, with the calls made from now on recorded in trace.
InitRecording ==
    /\ mp_state = init_mp_state
    /\ running = FALSE
    /\ last = NoCall
    /\ crashed = FALSE
    /\ recording = TRUE
    /\ trace = <<>>

BytesValue(v) == v[2] * 65536 + v[3] * 256 + v[4]

\* The script is parsed before its first packet is processed: the parser
\* queues the names it meets.
\* What lies after the copy of a name: a zero byte, or something else.
Terminated == {""}
Tails == {"", "~"}

\* The name the script gave, from what is read back from the queue.
ScriptName(queued) ==
    CHOOSE name \in Names : \E tail \in Tails : queued = name \o tail

\* The queue holds what is read back of the names of script, in order.
ReadBackOf(script, queue) ==
    /\ Len(queue) = Len(script)
    /\ \A i \in 1..Len(script) :
           \E tail \in Tails : queue[i] = script[i] \o tail

EnqueueVar(tails) ==
    /\ ~running
    /\ Len(mp_state.vars_queue) < MaxQueue
    /\ \E name \in Names, tail \in tails :
         mp_state' = enqueue_var(mp_state, name, tail)
    /\ UNCHANGED <<running, last, crashed, recording, trace>>

\* The names of the script of a plain handshake, <c> then <s> on the SYN and
\* the SYN/ACK, <c> and <s> on the ACK.
HandshakeScript == <<"c", "s", "c", "s">>

EnqueueHandshake(tails) ==
    /\ ~running
    /\ Len(mp_state.vars_queue) < Len(HandshakeScript)
    /\ \E tail \in tails :
         mp_state' = enqueue_var(mp_state,
                                 HandshakeScript[Len(mp_state.vars_queue) + 1],
                                 tail)
    /\ UNCHANGED <<running, last, crashed, recording, trace>>

\* The script gives a name a value; a name is given a value once, before
\* anything else is bound to it.
DefineVar ==
    /\ ~running
    /\ \E name \in Names, value \in ScriptKeys :
         /\ find_mp_var(mp_state, name) = NoVar
         /\ mp_state' = add_mp_var_script_defined(mp_state, name, value)
    /\ UNCHANGED <<running, last, crashed, recording, trace>>

\* The tool sends or checks the packet rewritten and turns to the next
\* packet of the script.
NextPacket ==
    /\ last.op = "packet"
    /\ ~crashed
    /\ last' = NoCall
    /\ UNCHANGED <<mp_state, running, crashed, recording, trace>>

\* The tool is alive and is done with the packet before.
Ready == ~crashed /\ last.op # "packet"

\* One call of mptcp_insert_and_extract_opt_fields. For an inbound packet
\* the live packet is the script packet itself.
Process(packet, live_option, direction, envs) ==
    /\ recording => Len(trace) < MaxTrace
    /\ \A i \in 1..Len(mp_state.subflows) :
         BytesValue(mp_state.subflows[i].subflow_sequence_number)
             <= MaxDssBytes
    /\ \E r \in {mptcp_insert_and_extract_opt_fields(
                     mp_state, packet, packet,
                     IF direction = "DIRECTION_INBOUND"
                     THEN OwnOptionAsJoinSyn(envs[1]) ELSE live_option,
                     direction, envs)} :
         /\ Len(r.mp.subflows) <= MaxSubflows
         /\ r.mp.last_packetdrill_addr_id <= MaxAddrId
         /\ mp_state' = r.mp
         /\ running' = TRUE
         /\ crashed' = r.crash
         /\ last' = [op |-> "packet", direction |-> direction,
                     packet |-> packet, live |-> live_option,
                     status |-> r.status, opts |-> r.opts, drew |-> r.drew]
         /\ recording' = recording
         /\ trace' = IF recording
                     THEN Append(trace, [before |-> mp_state, call |-> last'])
                     ELSE trace

(***************************************************************************)
(* The packets of the model, one action for each kind of option. An action *)
(* takes the sets its packets are drawn from.                              *)
(***************************************************************************)
MainPorts == <<htons(40000), htons(8080)>>
OtherPorts == <<htons(40001), htons(8080)>>
NullDeref == {"crash", "junk"}

MpCapable(length) == Option(TCPOPT_MPTCP, MP_CAPABLE_SUBTYPE, length)
MpJoin(length) == Option(TCPOPT_MPTCP, MP_JOIN_SUBTYPE, length)

LiveKeyOptions ==
    {NoLiveOption} \cup {LiveOption(k, U32(0), 0) : k \in LiveKeys}

\* An MP_CAPABLE option on a SYN or a SYN/ACK. The SYN comes from the tool
\* and the SYN/ACK from the kernel, or the other way round.
CapableSyn(directions, envs) ==
    /\ Ready
    /\ \E direction \in directions, ack \in BOOLEAN,
          live_option \in LiveKeyOptions, e \in envs :
         /\ direction = "DIRECTION_INBOUND" => live_option = NoLiveOption
         /\ Process(Packet(direction, TRUE, ack, 4, MainPorts, 5, 8, 0,
                           <<MpCapable(TCPOLEN_MP_CAPABLE_SYN)>>),
                    live_option, direction, <<e>>)

\* An MP_CAPABLE option on the ACK that ends the handshake.
CapableAck(directions, ipvers, port_pairs, envs) ==
    /\ Ready
    /\ \E direction \in directions, ipver \in ipvers, ports \in port_pairs,
          e \in envs :
        Process(Packet(direction, FALSE, TRUE, ipver, ports, 5, 10, 0,
                       <<MpCapable(TCPOLEN_MP_CAPABLE)>>),
                NoLiveOption, direction, <<e>>)

JoinInboundSyn == <<"DIRECTION_INBOUND", TRUE, FALSE, TCPOLEN_MP_JOIN_SYN>>
JoinOutboundSynAck ==
    <<"DIRECTION_OUTBOUND", TRUE, TRUE, TCPOLEN_MP_JOIN_SYN_ACK>>
JoinInboundAck == <<"DIRECTION_INBOUND", FALSE, TRUE, TCPOLEN_MP_JOIN_ACK>>
JoinOutboundSyn == <<"DIRECTION_OUTBOUND", TRUE, FALSE, TCPOLEN_MP_JOIN_SYN>>
JoinInboundSynAck ==
    <<"DIRECTION_INBOUND", TRUE, TRUE, TCPOLEN_MP_JOIN_SYN_ACK>>
JoinOutboundAck == <<"DIRECTION_OUTBOUND", FALSE, TRUE, TCPOLEN_MP_JOIN_ACK>>
JoinCases ==
    {JoinInboundSyn, JoinOutboundSynAck, JoinInboundAck, JoinOutboundSyn,
     JoinInboundSynAck, JoinOutboundAck}

LiveRand32 == {<<202, 254, 186, 190>>}
LiveJoinOptions ==
    {NoLiveOption}
    \cup {LiveOption(KeyZero, r, a) : r \in LiveRand32, a \in LiveAddrIds}

\* An MP_JOIN option in one of the six cases that are handled. The live
\* packet matters in the two cases that read it.
Join(cases, ipvers, port_pairs, envs) ==
    /\ Ready
    /\ \E c \in cases, ipver \in ipvers, ports \in port_pairs,
          live_option \in LiveJoinOptions, e \in envs :
        /\ c \notin {JoinOutboundSyn, JoinOutboundSynAck} =>
             live_option = NoLiveOption
        /\ Process(Packet(c[1], c[2], c[3], ipver, ports, 5, 8, 0,
                          <<MpJoin(c[4])>>),
                   live_option, c[1], <<e>>)

\* An MP_JOIN option on any packet: every direction the caller can pass,
\* every pair of flags, every length the parser lets through for MP_JOIN and
\* one of another option.
AnyDirections == Directions \cup {"DIRECTION_INVALID"}
JoinLengths ==
    {TCPOLEN_MP_JOIN_SYN, TCPOLEN_MP_JOIN_SYN_ACK, TCPOLEN_MP_JOIN_ACK,
     TCPOLEN_MP_CAPABLE}

JoinAny(port_pairs, envs) ==
    /\ Ready
    /\ \E direction \in AnyDirections, syn \in BOOLEAN, ack \in BOOLEAN,
          length \in JoinLengths, ports \in port_pairs,
          live_option \in LiveJoinOptions, e \in envs :
        /\ direction = "DIRECTION_INBOUND" => live_option = NoLiveOption
        /\ Process(Packet(direction, syn, ack, 4, ports, 5, 8, 0,
                          <<MpJoin(length)>>),
                   live_option, direction, <<e>>)

RawNumbers == {U64(0), U64(1000), <<255, 255, 255, 255, 255, 255, 255, 255>>}
DsnLengths == {TCPOLEN_DSS_DSN8, TCPOLEN_DSS_DSN8_WOCS}

\* A DSS option with a data sequence number on a data packet. ip_and_ihl is
\* a set of pairs <<IP version, ihl>>.
DssDsnPacket(directions, ip_and_ihl, port_pairs, payloads, raw_dsns, envs) ==
    /\ Ready
    /\ \E direction \in directions, h \in ip_and_ihl, ports \in port_pairs,
          payload \in payloads, length \in DsnLengths, raw_dsn \in raw_dsns,
          e \in envs :
        Process(Packet(direction, FALSE, TRUE, h[1], ports, h[2], 8, payload,
                       <<DssOption(length, TRUE, FALSE, raw_dsn, KeyZero)>>),
                NoLiveOption, direction, <<e>>)

\* A DSS option with a data acknowledgement.
DssDackPacket(directions, raw_dacks) ==
    /\ Ready
    /\ \E direction \in directions, raw_dack \in raw_dacks :
        Process(Packet(direction, FALSE, TRUE, 4, MainPorts, 5, 8, 0,
                       <<DssOption(TCPOLEN_DSS_DACK8, FALSE, TRUE, KeyZero,
                                   raw_dack)>>),
                NoLiveOption, direction, <<DefaultEnv>>)

\* An MPTCP option that no case handles, and a packet without MPTCP option.
Unhandled ==
    /\ Ready
    /\ \E direction \in Directions \cup {"DIRECTION_INVALID"},
          syn \in BOOLEAN, ack \in BOOLEAN,
          o \in {MpCapable(TCPOLEN_MP_CAPABLE), MpCapable(TCPOLEN_MP_CAPABLE_SYN),
              MpJoin(TCPOLEN_MP_JOIN_SYN), MpJoin(TCPOLEN_MP_JOIN_SYN_ACK),
              MpJoin(TCPOLEN_MP_JOIN_ACK),
              Option(TCPOPT_MPTCP, ADD_ADDR_SUBTYPE, 8),
              Option(TCPOPT_NOP, 0, 1)} :
        LET packet == Packet(direction, syn, ack, 4, MainPorts, 5, 8, 0, <<o>>)
            r == mptcp_insert_and_extract_opt_fields(
                     mp_state, packet, packet, NoLiveOption, direction,
                     <<DefaultEnv>>)
        IN  /\ r.mp = mp_state
            /\ ~r.crash
            /\ Process(packet, NoLiveOption, direction, <<DefaultEnv>>)

\* A packet with several TCP options: options that are not MPTCP options,
\* MPTCP options of the three subtypes handled and of another subtype.
OptionPool ==
    {Option(TCPOPT_NOP, 0, 1), MpCapable(TCPOLEN_MP_CAPABLE_SYN),
     MpJoin(TCPOLEN_MP_JOIN_SYN), Option(TCPOPT_MPTCP, ADD_ADDR_SUBTYPE, 8),
     DssOption(TCPOLEN_DSS_DACK8, FALSE, TRUE, KeyZero, U64(1000))}
OptionLists ==
    {<<a, b>> : a \in OptionPool, b \in OptionPool}
    \cup {<<a, b, c>> : a \in OptionPool, b \in OptionPool, c \in OptionPool}
LiveOptions ==
    {NoLiveOption}
    \cup {LiveOption(k, r, a) :
             k \in LiveKeys, r \in LiveRand32, a \in LiveAddrIds}

SeveralOptions ==
    /\ Ready
    /\ \E direction \in Directions, syn \in BOOLEAN, opts \in OptionLists,
          live_option \in LiveOptions :
        /\ direction = "DIRECTION_INBOUND" => live_option = NoLiveOption
        /\ Process(Packet(direction, syn, ~syn, 4, MainPorts, 5, 15, 0, opts),
                   live_option, direction,
                   [i \in 1..Len(opts) |-> DefaultEnv])

PortPairs == {MainPorts, OtherPorts}
Inbound == {"DIRECTION_INBOUND"}
Ipv4Plain == {<<4, 5>>}
IpHeaders == {<<4, 5>>, <<4, 6>>, <<6, 5>>}
DssPayloads == {500, 1000}
RawZero == {U64(0)}
Ipv4 == {4}
IpVersions == {4, 6}
IpAny == {4, 6, 0}

\* What the environment may decide: all of it, or all but the random numbers.
PlainEnvs == {DefaultEnv}
NullEnvs == {[DefaultEnv EXCEPT !.null_deref = n] : n \in NullDeref}
JunkEnvs ==
    {Env(KeyRand, DefaultEnv.generate_32, j32, j8, n) :
        j32 \in Junk32, j8 \in Junk8, n \in NullDeref}
RandEnvs == {[DefaultEnv EXCEPT !.generate_32 = g] : g \in Rand32}
AllEnvs ==
    {Env(k, g, j32, j8, n) :
        k \in RandKeys, g \in Rand32, j32 \in Junk32, j8 \in Junk8,
        n \in NullDeref}

Next ==
    \/ EnqueueVar(Tails)
    \/ DefineVar
    \/ CapableSyn(Directions, AllEnvs)
    \/ CapableAck(Directions, IpAny, PortPairs, AllEnvs)
    \/ Join(JoinCases, IpVersions, PortPairs, AllEnvs)
    \/ JoinAny(PortPairs, AllEnvs)
    \/ SeveralOptions
    \/ DssDsnPacket(Directions, IpHeaders, PortPairs, DssPayloads, RawNumbers,
                    AllEnvs)
    \/ DssDackPacket(Directions, RawNumbers)
    \/ Unhandled
    \/ NextPacket

Spec == Init /\ [][Next]_vars

\* The MP_CAPABLE handshake alone, with names given values by the script.
NextCapable ==
    \/ EnqueueVar(Tails)
    \/ DefineVar
    \/ CapableSyn(Directions, PlainEnvs)
    \/ CapableAck(Directions, IpAny, {MainPorts}, PlainEnvs)
    \/ NextPacket

SpecCapable == Init /\ [][NextCapable]_vars

\* The first three packets of a script that names no value, recorded.
NextHandshake ==
    \/ EnqueueHandshake(Tails)
    \/ CapableSyn(Directions, PlainEnvs)
    \/ CapableAck(Directions, IpVersions, {MainPorts}, JunkEnvs)
    \/ NextPacket

SpecHandshake == InitRecording /\ [][NextHandshake]_vars

\* The handshake of a script that names no value, and additional subflows.
NextJoin ==
    \/ EnqueueHandshake(Terminated)
    \/ CapableSyn(Directions, PlainEnvs)
    \/ CapableAck(Directions, Ipv4, {MainPorts}, PlainEnvs)
    \/ Join(JoinCases, Ipv4, PortPairs, NullEnvs)
    \/ NextPacket

SpecJoin == Init /\ [][NextJoin]_vars

\* The same handshake, a second subflow, and data packets on both.
NextDss ==
    \/ EnqueueHandshake(Terminated)
    \/ CapableSyn(Directions, PlainEnvs)
    \/ CapableAck(Inbound, Ipv4, {MainPorts}, PlainEnvs)
    \/ Join({JoinInboundSyn}, Ipv4, {OtherPorts}, PlainEnvs)
    \/ DssDsnPacket(Directions, IpHeaders, PortPairs, DssPayloads, RawZero,
                    NullEnvs)
    \/ NextPacket

SpecDss == Init /\ [][NextDss]_vars

\* The same handshake and the numbers of data packets on its subflow.
NextDssValues ==
    \/ EnqueueHandshake(Terminated)
    \/ CapableSyn(Directions, PlainEnvs)
    \/ CapableAck(Inbound, Ipv4, {MainPorts}, PlainEnvs)
    \/ DssDsnPacket(Inbound, Ipv4Plain, {MainPorts}, {1000}, RawNumbers,
                    JunkEnvs)
    \/ DssDackPacket(Directions, RawNumbers)
    \/ NextPacket

SpecDssValues == Init /\ [][NextDssValues]_vars

\* The same handshake, and MP_JOIN options on packets of every kind.
NextJoinDispatch ==
    \/ EnqueueHandshake(Terminated)
    \/ CapableSyn(Directions, PlainEnvs)
    \/ CapableAck(Inbound, Ipv4, {MainPorts}, PlainEnvs)
    \/ JoinAny({MainPorts}, PlainEnvs)
    \/ NextPacket

SpecJoinDispatch == Init /\ [][NextJoinDispatch]_vars

\* The same handshake, additional subflows with the random numbers drawn
\* differing from one call to the next, and data packets.
NextJoinRand ==
    \/ EnqueueHandshake(Terminated)
    \/ CapableSyn(Directions, PlainEnvs)
    \/ CapableAck(Inbound, Ipv4, {MainPorts}, PlainEnvs)
    \/ Join(JoinCases, Ipv4, {OtherPorts}, RandEnvs)
    \/ DssDsnPacket(Inbound, Ipv4Plain, PortPairs, {500}, RawZero, PlainEnvs)
    \/ NextPacket

SpecJoinRand == Init /\ [][NextJoinRand]_vars

\* The same handshake with packets that are neither IPv4 nor IPv6, and
\* packets for which there is no subflow.
NextMissingSubflow ==
    \/ EnqueueHandshake(Tails)
    \/ CapableSyn(Directions, PlainEnvs)
    \/ CapableAck(Directions, IpAny, {MainPorts}, PlainEnvs)
    \/ Join({JoinInboundSyn, JoinOutboundSyn}, Ipv4, {OtherPorts}, NullEnvs)
    \/ DssDsnPacket(Inbound, Ipv4Plain, PortPairs, {500}, RawZero, NullEnvs)
    \/ NextPacket

SpecMissingSubflow == Init /\ [][NextMissingSubflow]_vars

\* Packets with several options, from the queue of a plain handshake.
NextOptions ==
    \/ EnqueueHandshake(Terminated)
    \/ SeveralOptions
    \/ NextPacket

SpecOptions == Init /\ [][NextOptions]_vars

(***************************************************************************)
(* Properties of the session keys.                                         *)
(***************************************************************************)
IsCapableSyn(packet) ==
    /\ Len(packet.opts) = 1
    /\ packet.opts[1].kind = TCPOPT_MPTCP
    /\ packet.opts[1].subtype = MP_CAPABLE_SUBTYPE
    /\ packet.opts[1].length = TCPOLEN_MP_CAPABLE_SYN
    /\ packet.syn

\* A step that processes a packet.
PacketStep == last.op # "packet" /\ last'.op = "packet"

\* C1: once packetdrill_key_set (resp. kernel_key_set) is true, no step
\* changes packetdrill_key (resp. kernel_key), whatever packet is processed
\* and whatever name is at the front of the queue.
C1_KeyImmutable ==
    [][/\ mp_state.packetdrill_key_set =>
            mp_state'.packetdrill_key = mp_state.packetdrill_key
       /\ mp_state.kernel_key_set =>
            mp_state'.kernel_key = mp_state.kernel_key]_vars

\* C2: when an MP_CAPABLE SYN option is processed while the name at the front
\* of the queue is bound to a value v defined by the script, then afterwards
\* the key of the sending side (packetdrill_key for an inbound packet,
\* kernel_key for an outbound one) is v, the key written in the option is v,
\* no random key was drawn, and the key of the live packet was not adopted.
C2_ScriptDefinedPrecedence ==
    [][(/\ PacketStep
        /\ IsCapableSyn(last'.packet)
        /\ Len(mp_state.vars_queue) > 0
        /\ IsScriptDefined(find_mp_var(mp_state, Head(mp_state.vars_queue))))
       => LET v == find_mp_var(mp_state, Head(mp_state.vars_queue)).value
          IN  /\ last'.opts[1].key = v
              /\ ~last'.drew
              /\ last'.direction = "DIRECTION_INBOUND" =>
                   mp_state'.packetdrill_key = v
              /\ last'.direction = "DIRECTION_OUTBOUND" =>
                   mp_state'.kernel_key = v]_vars

(***************************************************************************)
(* The plain handshake: an inbound SYN, the SYN/ACK of the kernel, an      *)
(* inbound ACK, with the names <c>, <s>, <c>, <s> queued and none defined. *)
(***************************************************************************)
IsCapableAck(packet) ==
    /\ Len(packet.opts) = 1
    /\ packet.opts[1].kind = TCPOPT_MPTCP
    /\ packet.opts[1].subtype = MP_CAPABLE_SUBTYPE
    /\ packet.opts[1].length = TCPOLEN_MP_CAPABLE
    /\ ~packet.syn
    /\ packet.ack

BasicHandshakeProcessed ==
    /\ recording
    /\ Len(trace) = 3
    /\ trace[1].before
           = [init_mp_state EXCEPT !.vars_queue = trace[1].before.vars_queue]
    /\ ReadBackOf(HandshakeScript, trace[1].before.vars_queue)
    /\ trace[1].call.direction = "DIRECTION_INBOUND"
    /\ IsCapableSyn(trace[1].call.packet)
    /\ ~trace[1].call.packet.ack
    /\ trace[2].call.direction = "DIRECTION_OUTBOUND"
    /\ IsCapableSyn(trace[2].call.packet)
    /\ trace[2].call.packet.ack
    /\ trace[2].call.live.present
    /\ trace[3].call.direction = "DIRECTION_INBOUND"
    /\ IsCapableAck(trace[3].call.packet)

\* C3: after the three packets of the plain handshake every call returned
\* STATUS_OK, kernel_key is the key K of the live SYN/ACK, the ACK carries
\* packetdrill_key (the key written in the SYN) as sender_key and kernel_key
\* as receiver_key, initial_dsn is sha1_least_64bits(packetdrill_key), the
\* queue is empty and the subflow list holds exactly one subflow.
C3_BasicHandshake ==
    BasicHandshakeProcessed =>
        /\ \A i \in 1..3 : trace[i].call.status = STATUS_OK
        /\ mp_state.kernel_key = trace[2].call.live.key
        /\ trace[1].call.opts[1].key = mp_state.packetdrill_key
        /\ trace[2].call.opts[1].key = mp_state.kernel_key
        /\ trace[3].call.opts[1].sender_key = mp_state.packetdrill_key
        /\ trace[3].call.opts[1].receiver_key = mp_state.kernel_key
        /\ mp_state.initial_dsn = sha1_least_64bits(mp_state.packetdrill_key)
        /\ mp_state.vars_queue = <<>>
        /\ Len(mp_state.subflows) = 1

C3_Witness ==
    /\ BasicHandshakeProcessed
    /\ mp_state.packetdrill_key = KeyRand
    /\ mp_state.kernel_key = KeyLive
    /\ mp_state.packetdrill_key # mp_state.kernel_key
    /\ trace[3].call.opts[1].receiver_key = KeyLive
    /\ Len(mp_state.subflows) = 1

(***************************************************************************)
(* Additional subflows.                                                    *)
(***************************************************************************)
IsJoin(packet, syn, ack, length) ==
    /\ Len(packet.opts) = 1
    /\ packet.opts[1].kind = TCPOPT_MPTCP
    /\ packet.opts[1].subtype = MP_JOIN_SUBTYPE
    /\ packet.opts[1].length = length
    /\ packet.syn = syn
    /\ packet.ack = ack

\* Both keys are set and initial_dsn was derived from packetdrill_key.
HandshakeComplete ==
    /\ mp_state.packetdrill_key_set
    /\ mp_state.kernel_key_set
    /\ mp_state.initial_dsn = sha1_least_64bits(mp_state.packetdrill_key)

ProcessedOk == last.op = "packet" /\ last.status = STATUS_OK /\ ~crashed

\* C4: after the handshake, the receiver_token of every MP_JOIN SYN
\* processed, inbound or outbound and on any ports, holds on the wire the
\* leading 32 bits of the SHA-1 of kernel_key, most significant byte first.
C4_JoinToken ==
    (/\ HandshakeComplete
     /\ ProcessedOk
     /\ IsJoin(last.packet, TRUE, FALSE, TCPOLEN_MP_JOIN_SYN))
    => MemBytes(last.opts[1].receiver_token)
           = SubSeq(sha1(mp_state.kernel_key), 1, 4)

C4_Witness ==
    /\ HandshakeComplete
    /\ ProcessedOk
    /\ IsJoin(last.packet, TRUE, FALSE, TCPOLEN_MP_JOIN_SYN)
    /\ mp_state.kernel_key = KeyLive
    /\ Len(mp_state.subflows) = 2
    /\ MemBytes(last.opts[1].receiver_token) = <<235, 223, 233, 50>>

\* The subflow of the packet processed last.
LastSubflow ==
    mp_state.subflows[
        IF last.direction = "DIRECTION_INBOUND"
        THEN find_subflow_matching_inbound_packet(mp_state, last.packet)
        ELSE find_subflow_matching_outbound_packet(mp_state, last.packet)]

KernelFirstKey ==
    MemBytes(mp_state.kernel_key) \o MemBytes(mp_state.packetdrill_key)
KernelFirstMsg ==
    MemBytes(LastSubflow.kernel_rand_nbr)
        \o MemBytes(LastSubflow.packetdrill_rand_nbr)
PacketdrillFirstKey ==
    MemBytes(mp_state.packetdrill_key) \o MemBytes(mp_state.kernel_key)
PacketdrillFirstMsg ==
    MemBytes(LastSubflow.packetdrill_rand_nbr)
        \o MemBytes(LastSubflow.kernel_rand_nbr)

\* C5: the HMAC written in an MP_JOIN option is computed from the keys of
\* the session and the random numbers of the subflow matched: kernel key and
\* kernel number first for an outbound SYN/ACK or ACK, packetdrill key and
\* packetdrill number first for an inbound ACK or SYN/ACK; a SYN/ACK gets
\* the leading 64 bits of the tag, an ACK the whole tag.
C5_HmacInputs ==
    ProcessedOk =>
        /\ (/\ last.direction = "DIRECTION_OUTBOUND"
            /\ IsJoin(last.packet, TRUE, TRUE, TCPOLEN_MP_JOIN_SYN_ACK))
           => last.opts[1].sender_hmac
                  = <<"leading64",
                      hmac_sha1(KernelFirstKey, KernelFirstMsg)>>
        /\ (/\ last.direction = "DIRECTION_OUTBOUND"
            /\ IsJoin(last.packet, FALSE, TRUE, TCPOLEN_MP_JOIN_ACK))
           => last.opts[1].sender_hmac
                  = hmac_sha1(KernelFirstKey, KernelFirstMsg)
        /\ (/\ last.direction = "DIRECTION_INBOUND"
            /\ IsJoin(last.packet, FALSE, TRUE, TCPOLEN_MP_JOIN_ACK))
           => last.opts[1].sender_hmac
                  = hmac_sha1(PacketdrillFirstKey, PacketdrillFirstMsg)
        /\ (/\ last.direction = "DIRECTION_INBOUND"
            /\ IsJoin(last.packet, TRUE, TRUE, TCPOLEN_MP_JOIN_SYN_ACK))
           => last.opts[1].sender_hmac
                  = htobe64_tag(<<"leading64",
                                  hmac_sha1(PacketdrillFirstKey,
                                            PacketdrillFirstMsg)>>)

\* An outbound MP_JOIN ACK on a subflow whose two numbers differ, in a
\* session whose two keys differ.
C5_Witness ==
    /\ ProcessedOk
    /\ last.direction = "DIRECTION_OUTBOUND"
    /\ IsJoin(last.packet, FALSE, TRUE, TCPOLEN_MP_JOIN_ACK)
    /\ mp_state.packetdrill_key = KeyRand
    /\ mp_state.kernel_key = KeyLive
    /\ LastSubflow.kernel_rand_nbr \in LiveRand32
    /\ LastSubflow.packetdrill_rand_nbr = DefaultEnv.generate_32
    /\ last.opts[1].sender_hmac
           = hmac_sha1(KernelFirstKey, KernelFirstMsg)

\* C9: no two subflows of the list have the same source and destination
\* ports.
C9_SubflowUniqueness ==
    \A i, j \in 1..Len(mp_state.subflows) :
        i # j =>
            <<mp_state.subflows[i].src_port, mp_state.subflows[i].dst_port>>
            # <<mp_state.subflows[j].src_port, mp_state.subflows[j].dst_port>>

(***************************************************************************)
(* Data packets.                                                           *)
(***************************************************************************)
IsDssDsn(packet) ==
    /\ Len(packet.opts) = 1
    /\ packet.opts[1].kind = TCPOPT_MPTCP
    /\ packet.opts[1].subtype = DSS_SUBTYPE
    /\ packet.opts[1].flag_dsn
    /\ packet.opts[1].length \in {TCPOLEN_DSS_DSN8, TCPOLEN_DSS_DSN8_WOCS}

IsDssDack(packet) ==
    /\ Len(packet.opts) = 1
    /\ packet.opts[1].kind = TCPOPT_MPTCP
    /\ packet.opts[1].subtype = DSS_SUBTYPE
    /\ packet.opts[1].flag_dack

\* A step that processes an inbound DSS option with a DSN and returns
\* STATUS_OK.
DssDsnStep ==
    /\ PacketStep
    /\ last'.direction = "DIRECTION_INBOUND"
    /\ IsDssDsn(last'.packet)
    /\ last'.status = STATUS_OK
    /\ ~crashed'

\* The subflow, in the list before the step, of the packet of the step.
SubflowOfStep == find_subflow_matching_inbound_packet(mp_state, last'.packet)

Ssn(mp, i) == BytesValue(mp.subflows[i].subflow_sequence_number)

\* C6: the subflow_seq_nbr written in a DSS option of a subflow is the one
\* written in the previous DSS option of that subflow plus the payload bytes
\* of the previous packet, 0 for the first; a packet of another subflow, or a
\* packet without a DSN, leaves it as it is. The subflow keeps in
\* subflow_sequence_number the number to write next.
C6_SeqChaining ==
    [][LET shift == Len(mp_state'.subflows) - Len(mp_state.subflows)
       IN  /\ shift > 0 => Ssn(mp_state', 1) = 0
           /\ \A j \in 1..Len(mp_state.subflows) :
                IF DssDsnStep /\ j = SubflowOfStep
                THEN /\ BytesValue(MemBytes(last'.opts[1].subflow_seq_nbr))
                            = Ssn(mp_state, j)
                     /\ Ssn(mp_state', j + shift)
                            = Ssn(mp_state, j) + TcpPayloadBytes(last'.packet)
                ELSE Ssn(mp_state', j + shift) = Ssn(mp_state, j)]_vars

\* C7: for an inbound DSS option with a DSN, the data_level_length written
\* and the advance of the subflow_sequence_number of the subflow are both the
\* number of TCP payload bytes of the packet, whatever the length of the IP
\* header and of the TCP options.
C7_PayloadLength ==
    [][DssDsnStep =>
        /\ ntohs(last'.opts[1].data_level_length)
               = TcpPayloadBytes(last'.packet)
        /\ SubflowOfStep # NoSubflow =>
               Ssn(mp_state', SubflowOfStep)
                   = Ssn(mp_state, SubflowOfStep)
                         + TcpPayloadBytes(last'.packet)]_vars

\* C8: the data_seq_nbr_8oct written in an inbound DSS option with a DSN
\* holds on the wire, most significant byte first, initial_dsn plus the
\* number of the script modulo 2^64 when the option has a checksum, and one
\* more when it has none.
C8_DataSeqNbr ==
    (/\ ProcessedOk
     /\ last.direction = "DIRECTION_INBOUND"
     /\ IsDssDsn(last.packet))
    => MemBytes(last.opts[1].data_seq_nbr_8oct)
           = IF last.packet.opts[1].length = TCPOLEN_DSS_DSN8
             THEN AddBytes(mp_state.initial_dsn, last.packet.opts[1].raw_dsn)
             ELSE AddBytes(AddBytes(mp_state.initial_dsn,
                                    last.packet.opts[1].raw_dsn),
                           <<0, 0, 0, 0, 0, 0, 0, 1>>)

\* After the handshake, an option without checksum whose number is 2^64 - 1:
\* the sum wraps to initial_dsn.
C8_Witness ==
    /\ HandshakeComplete
    /\ mp_state.packetdrill_key = KeyRand
    /\ ProcessedOk
    /\ last.direction = "DIRECTION_INBOUND"
    /\ IsDssDsn(last.packet)
    /\ last.packet.opts[1].length = TCPOLEN_DSS_DSN8_WOCS
    /\ last.packet.opts[1].raw_dsn = <<255, 255, 255, 255, 255, 255, 255, 255>>
    /\ MemBytes(last.opts[1].data_seq_nbr_8oct)
           = <<208, 84, 156, 192, 64, 88, 17, 213>>

\* C10: once the MP_CAPABLE ACK was processed, initial_dack is
\* sha1_least_64bits(kernel_key), and the data_ack_8oct written in an inbound
\* DSS option with a DACK is that value plus the number of the script modulo
\* 2^64.
C10_InitialDack ==
    /\ (ProcessedOk /\ IsCapableAck(last.packet))
       => mp_state.initial_dack = sha1_least_64bits(mp_state.kernel_key)
    /\ (/\ HandshakeComplete
        /\ ProcessedOk
        /\ last.direction = "DIRECTION_INBOUND"
        /\ IsDssDack(last.packet))
       => MemBytes(last.opts[1].data_ack_8oct)
              = AddBytes(sha1_least_64bits(mp_state.kernel_key),
                         last.packet.opts[1].raw_dack)

(***************************************************************************)
(* The values derived from the keys.                                       *)
(***************************************************************************)
\* initial_dsn was derived at an MP_CAPABLE ACK from a key that was set: the
\* ACK is the only place that assigns it, and a key once set is not zero.
DsnDerived ==
    /\ mp_state.initial_dsn # KeyZero
    /\ mp_state.initial_dsn # sha1_least_64bits(KeyZero)

\* C11: once initial_dsn was derived at an MP_CAPABLE ACK, no step changes
\* it, a further MP_CAPABLE ACK in either direction included.
C11_InitialDsnOnce ==
    [][DsnDerived => mp_state'.initial_dsn = mp_state.initial_dsn]_vars

\* A step that processes an inbound DSS option, with a DSN or a DACK.
InboundDssStep ==
    /\ PacketStep
    /\ last'.direction = "DIRECTION_INBOUND"
    /\ IsDssDsn(last'.packet) \/ IsDssDack(last'.packet)

\* C12: an inbound DSS option processed while packetdrill_key_set or
\* kernel_key_set is false returns STATUS_ERR, writes no field of the option
\* and leaves the session, subflow sequence numbers included, as it was.
C12_NoDssBeforeKeys ==
    [][(/\ InboundDssStep
        /\ ~(mp_state.packetdrill_key_set /\ mp_state.kernel_key_set))
       => /\ last'.status = STATUS_ERR
          /\ last'.opts[1] = BlankFields
          /\ mp_state' = mp_state]_vars

(***************************************************************************)
(* The dispatch on direction, flags and length.                            *)
(***************************************************************************)
\* The direction, flags and length of the MP_JOIN option of a packet.
JoinTuple(call) ==
    <<call.direction, call.packet.syn, call.packet.ack,
      call.packet.opts[1].length>>

IsAnyJoin(packet) ==
    /\ Len(packet.opts) = 1
    /\ packet.opts[1].kind = TCPOPT_MPTCP
    /\ packet.opts[1].subtype = MP_JOIN_SUBTYPE

\* C13: an MP_JOIN option whose direction, SYN flag, ACK flag and length are
\* not those of one of the six cases handled makes the call return
\* STATUS_ERR, writes no field of the option and leaves the whole session
\* (keys, address id counter, subflows, queue, bindings) as it was.
C13_JoinDispatchStrict ==
    [][(/\ PacketStep
        /\ IsAnyJoin(last'.packet)
        /\ JoinTuple(last') \notin JoinCases)
       => /\ last'.status = STATUS_ERR
          /\ ~crashed'
          /\ last'.opts[1] = BlankFields
          /\ mp_state' = mp_state]_vars

\* After the handshake and with a subflow on the ports of the packet: an
\* inbound ACK whose MP_JOIN option has the length of a SYN/ACK.
C13_Witness ==
    /\ HandshakeComplete
    /\ last.op = "packet"
    /\ IsAnyJoin(last.packet)
    /\ JoinTuple(last)
           = <<"DIRECTION_INBOUND", FALSE, TRUE, TCPOLEN_MP_JOIN_SYN_ACK>>
    /\ find_subflow_matching_inbound_packet(mp_state, last.packet) # NoSubflow
    /\ last.status = STATUS_ERR
    /\ last.opts[1] = BlankFields

(***************************************************************************)
(* Errors of the MP_CAPABLE subroutines.                                   *)
(***************************************************************************)
\* C14: when extract_and_set_kernel_key fails on an outbound MP_CAPABLE SYN,
\* for instance because the live packet has no MPTCP option, the call
\* returns STATUS_ERR, also when the name at the front of the queue has a
\* value so that the key is written in the option.
C14_OutboundSynFailure ==
    [][(/\ PacketStep
        /\ IsCapableSyn(last'.packet)
        /\ last'.direction = "DIRECTION_OUTBOUND"
        /\ extract_and_set_kernel_key(mp_state, last'.live).error # STATUS_OK)
       => last'.status = STATUS_ERR]_vars

\* The random numbers a second call would get: another key than the first.
SecondEnv == [DefaultEnv EXCEPT !.rand_64 = KeyLive]

\* mptcp_gen_key called twice in a row, from the state mp.
GenKeyTwice(mp) == mptcp_gen_key(mptcp_gen_key(mp, DefaultEnv).mp, SecondEnv)

\* The name the script gave for the front of the queue names
\* packetdrill_key: it was bound to it when the key was drawn, or the script
\* gave it the value of the key, and it is bound to nothing else.
FrontNamesPacketdrillKey ==
    /\ mp_state.packetdrill_key_set
    /\ Len(mp_state.vars_queue) > 0
    /\ \E i \in 1..Len(mp_state.vars) :
           ScriptName(mp_state.vars[i].name)
               = ScriptName(Head(mp_state.vars_queue))
    /\ \A i \in 1..Len(mp_state.vars) :
           ScriptName(mp_state.vars[i].name)
               = ScriptName(Head(mp_state.vars_queue))
           => /\ \/ mp_state.vars[i].ref = "packetdrill_key"
                 \/ IsScriptDefined(mp_state.vars[i])
              /\ DerefValue(mp_state, mp_state.vars[i])
                     = mp_state.packetdrill_key

\* C15: mptcp_gen_key called twice yields the packetdrill_key of the first
\* call and draws no second key; and an inbound MP_CAPABLE SYN processed
\* again, with at the front of the queue the name that named the key at the
\* first SYN, returns STATUS_OK, writes that key in the option, draws no
\* key and leaves packetdrill_key as it was.
C15_GenKeyIdempotent ==
    [][/\ GenKeyTwice(mp_state).mp.packetdrill_key
              = mptcp_gen_key(mp_state, DefaultEnv).mp.packetdrill_key
       /\ ~GenKeyTwice(mp_state).drew
       /\ (/\ PacketStep
           /\ IsCapableSyn(last'.packet)
           /\ last'.direction = "DIRECTION_INBOUND"
           /\ FrontNamesPacketdrillKey)
          => /\ last'.status = STATUS_OK
             /\ ~last'.drew
             /\ last'.opts[1].key = mp_state.packetdrill_key
             /\ mp_state'.packetdrill_key = mp_state.packetdrill_key]_vars

\* A second inbound SYN of a session whose key was drawn: nothing is drawn
\* and the option carries the key drawn before.
C15_Witness ==
    /\ last.op = "packet"
    /\ IsCapableSyn(last.packet)
    /\ ~last.packet.ack
    /\ last.direction = "DIRECTION_INBOUND"
    /\ last.status = STATUS_OK
    /\ ~last.drew
    /\ mp_state.packetdrill_key = KeyRand
    /\ last.opts[1].key = KeyRand
    /\ Len(mp_state.vars) = 1
    /\ mp_state.vars[1].ref = "packetdrill_key"

(***************************************************************************)
(* The fields of a subflow.                                                *)
(***************************************************************************)
\* The fields of subflow j before the step are those of subflow k after it,
\* as far as they had been given a value: a number drawn by generate_32, a
\* number or an address id read in a live packet, the address id taken from
\* the counter; and the sequence number did not decrease.
SubflowKept(j, k) ==
    LET old == mp_state.subflows[j]
        new == mp_state'.subflows[k]
    IN  /\ old.packetdrill_rand_nbr \in Rand32 =>
               new.packetdrill_rand_nbr = old.packetdrill_rand_nbr
        /\ old.kernel_rand_nbr \in LiveRand32 =>
               new.kernel_rand_nbr = old.kernel_rand_nbr
        /\ old.kernel_addr_id \in LiveAddrIds =>
               new.kernel_addr_id = old.kernel_addr_id
        /\ new.packetdrill_addr_id = old.packetdrill_addr_id
        /\ Ssn(mp_state', k) >= Ssn(mp_state, j)

\* C16: no step gives another value to a packetdrill_rand_nbr,
\* kernel_rand_nbr, packetdrill_addr_id or kernel_addr_id of a subflow that
\* had been given one, a retransmitted MP_JOIN SYN/ACK of either direction
\* included, and no step decreases a subflow_sequence_number.
C16_SubflowFieldsStable ==
    [][\A j \in 1..Len(mp_state.subflows) :
           SubflowKept(j, j + Len(mp_state'.subflows)
                            - Len(mp_state.subflows))]_vars

\* The lookup that goes with the direction of a packet.
FindByDirection(mp, direction, packet) ==
    IF direction = "DIRECTION_INBOUND"
    THEN find_subflow_matching_inbound_packet(mp, packet)
    ELSE find_subflow_matching_outbound_packet(mp, packet)

\* A packet of each direction on each pair of ports.
ProbePackets ==
    {<<d, Packet(d, FALSE, TRUE, 4, ports, 5, 5, 0, <<>>)>> :
        d \in Directions, ports \in PortPairs}

\* C17: when a step creates a subflow from a packet, the lookup of the
\* direction of that packet finds a subflow for it right after, the subflow
\* created matches it, and a packet for which a lookup finds a subflow
\* still has one after any further step, creations of subflows included.
C17_CreateThenFind ==
    [][/\ (PacketStep /\ Len(mp_state'.subflows) > Len(mp_state.subflows))
          => /\ FindByDirection(mp_state', last'.direction, last'.packet)
                    # NoSubflow
             /\ CallMatch(IF last'.direction = "DIRECTION_INBOUND"
                          THEN "does_subflow_match_inbound_packet"
                          ELSE "does_subflow_match_outbound_packet",
                          mp_state'.subflows[1], last'.packet)
       /\ \A p \in ProbePackets :
              FindByDirection(mp_state, p[1], p[2]) # NoSubflow
                  => FindByDirection(mp_state', p[1], p[2]) # NoSubflow]_vars

\* A second subflow was created by an inbound MP_JOIN SYN: the lookup finds
\* it for that packet, and finds the first subflow for a packet of the other
\* ports.
C17_Witness ==
    /\ ProcessedOk
    /\ last.direction = "DIRECTION_INBOUND"
    /\ IsJoin(last.packet, TRUE, FALSE, TCPOLEN_MP_JOIN_SYN)
    /\ Len(mp_state.subflows) = 2
    /\ find_subflow_matching_inbound_packet(mp_state, last.packet) = 1
    /\ \E p \in ProbePackets :
           /\ p[1] = "DIRECTION_INBOUND"
           /\ find_subflow_matching_inbound_packet(mp_state, p[2]) = 2

(***************************************************************************)
(* Packets for which there is no subflow.                                  *)
(***************************************************************************)
\* The packet of the step needs a subflow and there is none: a DSN on ports
\* that match no subflow, an outbound MP_JOIN SYN or an MP_CAPABLE ACK for
\* which no subflow can be created.
NeedsMissingSubflow ==
    \/ /\ last'.direction = "DIRECTION_INBOUND"
       /\ IsDssDsn(last'.packet)
       /\ find_subflow_matching_inbound_packet(mp_state, last'.packet)
              = NoSubflow
    \/ /\ last'.direction = "DIRECTION_OUTBOUND"
       /\ IsJoin(last'.packet, TRUE, FALSE, TCPOLEN_MP_JOIN_SYN)
       /\ new_subflow_outbound(mp_state, last'.packet, last'.live,
                               DefaultEnv).subflow = NoSubflow
    \/ /\ last'.direction = "DIRECTION_INBOUND"
       /\ IsCapableAck(last'.packet)
       /\ new_subflow_inbound(mp_state, last'.packet, DefaultEnv).subflow
              = NoSubflow
    \/ /\ last'.direction = "DIRECTION_OUTBOUND"
       /\ IsCapableAck(last'.packet)
       /\ new_subflow_outbound(mp_state, last'.packet,
                               OwnOptionAsJoinSyn(DefaultEnv),
                               DefaultEnv).subflow = NoSubflow

\* C18: when the packet processed needs a subflow and there is none, the
\* call returns STATUS_ERR and the process goes on: no field of a subflow
\* that does not exist is read or written.
C18_MissingSubflowIsError ==
    [][(PacketStep /\ NeedsMissingSubflow)
       => (last'.status = STATUS_ERR /\ ~crashed')]_vars

(***************************************************************************)
(* The order of the options of a packet.                                   *)
(***************************************************************************)
\* The live option the subroutines of a call read.
LiveOf(call) ==
    IF call.direction = "DIRECTION_INBOUND"
    THEN OwnOptionAsJoinSyn(DefaultEnv) ELSE call.live

\* What the subroutine of an MPTCP option o of the packet of call does from
\* the state mp.
SubroutineAlone(mp, call, o) ==
    DispatchSubtype(mp, call.packet, call.packet, LiveOf(call), o,
                    call.direction, DefaultEnv)

\* Option i of the packet of call handled alone from the state mp: an option
\* that is not an MPTCP option changes nothing and does not fail.
OptionAlone(mp, call, i) ==
    IF call.packet.opts[i].kind # TCPOPT_MPTCP
    THEN Ret(mp, BlankFields, STATUS_OK)
    ELSE SubroutineAlone(mp, call, call.packet.opts[i])

RECURSIVE StateBefore(_, _, _)
\* The state in which option i is handled when none before it failed: the
\* state left by option i - 1.
StateBefore(mp, call, i) ==
    IF i = 1 THEN mp
    ELSE OptionAlone(StateBefore(mp, call, i - 1), call, i - 1).mp

\* The first option that fails, 0 when none does.
FirstFailure(mp, call) ==
    LET failing == {i \in 1..Len(call.packet.opts) :
                       OptionAlone(StateBefore(mp, call, i), call, i).error
                           # STATUS_OK}
    IN  IF failing = {} THEN 0
        ELSE CHOOSE i \in failing : \A j \in failing : i <= j

\* The call stopped at option f (0: it visited all n options).
StoppedAt(mp, call, f, n) ==
    /\ call.status = (IF f = 0 THEN STATUS_OK ELSE STATUS_ERR)
    /\ Len(call.opts) = (IF f = 0 THEN n ELSE f)
    /\ \A i \in 1..Len(call.opts) :
           call.opts[i] = OptionAlone(StateBefore(mp, call, i), call, i).opt

\* C19: a call handles the options of the packet in the order of the header,
\* each from the state the option before left; an option that is not an
\* MPTCP option changes nothing; the call stops with STATUS_ERR at the first
\* MPTCP option whose subroutine fails or whose subtype is not MP_CAPABLE,
\* MP_JOIN or DSS, the options after it cause no change; and it returns
\* STATUS_OK exactly when no MPTCP option failed.
C19_OptionOrder ==
    [][(PacketStep /\ ~crashed')
       => /\ StoppedAt(mp_state, last', FirstFailure(mp_state, last'),
                       Len(last'.packet.opts))
          /\ mp_state' = StateBefore(mp_state, last', Len(last'.opts) + 1)]_vars

\* An inbound SYN with three options: the MP_JOIN option created a subflow,
\* the option of another subtype stopped the call, the MP_CAPABLE option
\* after it drew no key.
C19_Witness ==
    /\ last.op = "packet"
    /\ ~crashed
    /\ last.direction = "DIRECTION_INBOUND"
    /\ Len(last.packet.opts) = 3
    /\ last.packet.opts[1] = MpJoin(TCPOLEN_MP_JOIN_SYN)
    /\ last.packet.opts[2].subtype = ADD_ADDR_SUBTYPE
    /\ last.packet.opts[3] = MpCapable(TCPOLEN_MP_CAPABLE_SYN)
    /\ last.status = STATUS_ERR
    /\ Len(last.opts) = 2
    /\ Len(mp_state.subflows) = 1
    /\ mp_state.last_packetdrill_addr_id = 1
    /\ ~mp_state.packetdrill_key_set
    /\ Len(mp_state.vars_queue) = 4

(***************************************************************************)
(* The address ids of the tool.                                            *)
(***************************************************************************)
\* The step takes an address id for the tool: an inbound MP_CAPABLE ACK or an
\* inbound MP_JOIN SYN that creates a subflow, or an inbound MP_JOIN SYN/ACK
\* of a subflow of the list.
AddrIdStep ==
    /\ PacketStep
    /\ last'.direction = "DIRECTION_INBOUND"
    /\ \/ /\ IsCapableAck(last'.packet)
          /\ Len(mp_state'.subflows) > Len(mp_state.subflows)
       \/ /\ IsJoin(last'.packet, TRUE, FALSE, TCPOLEN_MP_JOIN_SYN)
          /\ last'.status = STATUS_OK
       \/ /\ IsJoin(last'.packet, TRUE, TRUE, TCPOLEN_MP_JOIN_SYN_ACK)
          /\ last'.status = STATUS_OK

\* The address id taken in the step is id.
AddrIdTaken(id) ==
    /\ IsCapableAck(last'.packet) =>
           mp_state'.subflows[1].packetdrill_addr_id = id
    /\ IsJoin(last'.packet, TRUE, FALSE, TCPOLEN_MP_JOIN_SYN) =>
           /\ mp_state'.subflows[1].packetdrill_addr_id = id
           /\ last'.opts[1].address_id = id
    /\ IsJoin(last'.packet, TRUE, TRUE, TCPOLEN_MP_JOIN_SYN_ACK) =>
           last'.opts[1].address_id = id

\* C20: last_packetdrill_addr_id is 0 until the first packet; a step that
\* takes an address id for the tool takes the value of the counter and adds
\* one to the counter; no other step changes the counter.
C20_AddrIdCounter ==
    [][/\ ~running => mp_state.last_packetdrill_addr_id = 0
       /\ IF AddrIdStep
          THEN /\ AddrIdTaken(mp_state.last_packetdrill_addr_id)
               /\ mp_state'.last_packetdrill_addr_id
                      = mp_state.last_packetdrill_addr_id + 1
          ELSE mp_state'.last_packetdrill_addr_id
                   = mp_state.last_packetdrill_addr_id]_vars

\* After a handshake with one inbound ACK, an inbound MP_JOIN SYN: its
\* address id is 1 and the list holds two subflows.
C20_Witness ==
    /\ HandshakeComplete
    /\ ProcessedOk
    /\ last.direction = "DIRECTION_INBOUND"
    /\ IsJoin(last.packet, TRUE, FALSE, TCPOLEN_MP_JOIN_SYN)
    /\ last.opts[1].address_id = 1
    /\ Len(mp_state.subflows) = 2
    /\ mp_state.subflows[1].packetdrill_addr_id = 1
    /\ mp_state.subflows[2].packetdrill_addr_id = 0
    /\ mp_state.last_packetdrill_addr_id = 2

(***************************************************************************)
(* The bindings and the queue of names.                                    *)
(***************************************************************************)
\* C21: the hashmap never holds two bindings of one name; a name that has a
\* binding and comes to the front of the queue again, for instance when the
\* key of the kernel is extracted, is looked up and not bound again.
C21_SingleBinding ==
    \A i, j \in 1..Len(mp_state.vars) :
        i # j => mp_state.vars[i].name # mp_state.vars[j].name

\* The packet carries an MP_CAPABLE option.
HasCapableOption(packet) ==
    \E i \in 1..Len(packet.opts) :
        /\ packet.opts[i].kind = TCPOPT_MPTCP
        /\ packet.opts[i].subtype = MP_CAPABLE_SUBTYPE

\* q is what is left of p after k names were taken from its front.
FrontRemoved(p, q, k) ==
    /\ k <= Len(p)
    /\ q = SubSeq(p, k + 1, Len(p))

\* The two subroutines that read the front name leave it in the queue.
PeekKeepsQueue ==
    /\ mptcp_gen_key(mp_state, DefaultEnv).mp.vars_queue
           = mp_state.vars_queue
    /\ \A live_option \in LiveKeyOptions :
           extract_and_set_kernel_key(mp_state, live_option).mp.vars_queue
               = mp_state.vars_queue

\* C22: a packet takes names from the front of the queue only, in the order
\* they were queued; an MP_CAPABLE SYN option that returns STATUS_OK, in
\* either direction, takes exactly one, the one that was at the front, an
\* MP_CAPABLE ACK option that returns STATUS_OK exactly two; reading the
\* front name takes none; and a packet without MP_CAPABLE option (MP_JOIN,
\* DSS) leaves the queue and the bindings as they were.
C22_QueueConsumption ==
    [][/\ PeekKeepsQueue
       /\ PacketStep =>
            /\ \E k \in 0..Len(mp_state.vars_queue) :
                   FrontRemoved(mp_state.vars_queue, mp_state'.vars_queue, k)
            /\ (IsCapableSyn(last'.packet) /\ last'.status = STATUS_OK)
               => FrontRemoved(mp_state.vars_queue, mp_state'.vars_queue, 1)
            /\ (IsCapableAck(last'.packet) /\ last'.status = STATUS_OK)
               => FrontRemoved(mp_state.vars_queue, mp_state'.vars_queue, 2)
            /\ ~HasCapableOption(last'.packet)
               => /\ mp_state'.vars_queue = mp_state.vars_queue
                  /\ mp_state'.vars = mp_state.vars]_vars

\* The ACK of a handshake whose SYN and SYN/ACK took <c> and <s>: it took
\* the two names left.
C22_Witness ==
    /\ ProcessedOk
    /\ IsCapableAck(last.packet)
    /\ mp_state.packetdrill_key = KeyRand
    /\ mp_state.kernel_key = KeyLive
    /\ last.opts[1].sender_key = KeyRand
    /\ last.opts[1].receiver_key = KeyLive
    /\ mp_state.vars_queue = <<>>


(***************************************************************************)
(* What an outbound MP_JOIN takes from the live packet.                    *)
(***************************************************************************)
\* An outbound MP_JOIN SYN or SYN/ACK whose live packet carries an MP_JOIN
\* option was processed and returned STATUS_OK.
OutboundJoinProcessed ==
    /\ ProcessedOk
    /\ last.direction = "DIRECTION_OUTBOUND"
    /\ \/ IsJoin(last.packet, TRUE, FALSE, TCPOLEN_MP_JOIN_SYN)
       \/ IsJoin(last.packet, TRUE, TRUE, TCPOLEN_MP_JOIN_SYN_ACK)
    /\ last.live.present

\* C23: after an outbound MP_JOIN SYN or SYN/ACK, address_id and
\* sender_random_number of the option of the script packet hold the bytes
\* of the same fields of the MP_JOIN option of the live packet, and
\* kernel_rand_nbr of the subflow holds that same value, which is what the
\* HMAC messages of the subflow take as the number of the kernel.
C23_OutboundJoinMirrorsLive ==
    OutboundJoinProcessed =>
        /\ last.opts[1].address_id = last.live.address_id
        /\ last.opts[1].sender_random_number = last.live.sender_random_number
        /\ LastSubflow.kernel_addr_id = last.live.address_id
        /\ LastSubflow.kernel_rand_nbr = last.live.sender_random_number
        /\ MpJoinOutboundAckHmac(mp_state, LastSubflow)
               = hmac_sha1(
                     HmacKey(mp_state.kernel_key, mp_state.packetdrill_key),
                     MemBytes(last.live.sender_random_number)
                         \o MemBytes(LastSubflow.packetdrill_rand_nbr))

=============================================================================
